---- MODULE Spec2Model ----
(***************************************************************************)
(* A model of the CER e-mail webhook (src/main.py): the Flask handler      *)
(* handle_email, the Gemini extraction client, the market classifier, the  *)
(* date normaliser and the Google-Sheets writer.                           *)
(*                                                                         *)
(* Python values are records [t, v]: t is the Python type and v the text   *)
(* of the value as a sequence of symbols (the decimal digits of a number,  *)
(* the characters of a string).  A fixed text of the program (a header     *)
(* cell, a market name) is a string of one symbol holding the whole text.  *)
(***************************************************************************)
EXTENDS Integers, Sequences, FiniteSets, TLC

VARIABLES
    env,        \* the process environment: API key and credentials blob
    tabs,       \* the spreadsheet: worksheet title -> sequence of rows
    pc,         \* position of every request inside handle_email
    req,        \* the form fields of every request
    extracted,  \* what extract_data_from_email returned to the request
    data,       \* extracted_data as handed to update_google_sheet
    resp,       \* the HTTP response of every request
    raised,     \* the exception that reached handle_email's except clause
    llmCalls,   \* number of generate_content calls made for the request
    sheetOps,   \* number of spreadsheet API calls made for the request
    rowOf,      \* the data row the request appended (<<>> when none)
    arg,        \* argument of the pure function under test
    ret,        \* its latest result
    calls       \* number of applications so far

vars == <<env, tabs, pc, req, extracted, data, resp, raised, llmCalls,
          sheetOps, rowOf, arg, ret, calls>>

webVars == <<env, tabs, pc, req, extracted, data, resp, raised, llmCalls,
             sheetOps, rowOf>>

funVars == <<arg, ret, calls>>

-----------------------------------------------------------------------------
(* Python values *)

Str(s) == [t |-> "str", v |-> s]

PyInt(digits) == [t |-> "int", v |-> digits]

None == [t |-> "NoneType", v |-> <<>>]

Text(w) == Str(<<w>>)

IsStr(x) == x.t = "str"

\* Python truthiness of the values modelled here: None, "" and 0 are falsy
Truthy(x) ==
    CASE x.t = "NoneType" -> FALSE
      [] x.t = "str" -> Len(x.v) > 0
      [] x.t = "int" -> x.v # <<"0">>
      [] OTHER -> TRUE

\* str(x): a string is itself, a number its digits, None the text "None"
PyStr(x) ==
    CASE x.t = "str" -> x
      [] x.t = "NoneType" -> Str(<<"N", "o", "n", "e">>)
      [] OTHER -> Str(x.v)

\* d.get(k, default)
Get(d, k, default) == IF k \in DOMAIN d THEN d[k] ELSE default

\* a normal return or a raised exception
Return(x) == [exc |-> "", msg |-> "", val |-> x]

Raise(type, message) == [exc |-> type, msg |-> message, val |-> None]

-----------------------------------------------------------------------------
(* Market classifier *)

MARKET_KEY ==
       (<<"1","0","2","0">> :> "Corporate") @@ (<<"1","0","6","0">> :> "IT&S") @@ (<<"5","5","0","0">> :> "East Texas") @@
       (<<"5","5","0","1">> :> "East Texas") @@ (<<"5","5","0","4">> :> "East Texas") @@ (<<"5","5","0","5">> :> "East Texas") @@
       (<<"5","5","1","0">> :> "East Texas") @@ (<<"5","5","1","5">> :> "East Texas") @@ (<<"5","5","2","0">> :> "East Texas") @@
       (<<"5","5","2","5">> :> "East Texas") @@ (<<"5","5","3","0">> :> "East Texas") @@ (<<"5","5","3","5">> :> "East Texas") @@
       (<<"5","5","4","0">> :> "East Texas") @@ (<<"5","5","5","0">> :> "East Texas") @@ (<<"5","4","0","0">> :> "Idaho") @@
       (<<"5","4","0","4">> :> "Idaho") @@ (<<"5","4","0","5">> :> "Idaho") @@ (<<"5","4","8","0">> :> "Kansas") @@
       (<<"5","4","3","0">> :> "New Jersey") @@ (<<"5","4","4","0">> :> "New Jersey") @@ (<<"1","5","0","0">> :> "New Mexico") @@
       (<<"5","0","5","0">> :> "New Mexico") @@ (<<"5","0","5","5">> :> "New Mexico") @@ (<<"5","0","6","1">> :> "New Mexico") @@
       (<<"5","0","7","0">> :> "New Mexico") @@ (<<"5","0","8","2">> :> "New Mexico") @@ (<<"5","1","2","5">> :> "New Mexico") @@
       (<<"1","6","0","0">> :> "Oklahoma") @@ (<<"5","2","0","0">> :> "Oklahoma") @@ (<<"5","2","0","1">> :> "Oklahoma") @@
       (<<"5","2","1","0">> :> "Oklahoma") @@ (<<"5","2","3","0">> :> "Oklahoma") @@ (<<"5","2","5","1">> :> "Oklahoma") @@
       (<<"5","2","6","0">> :> "Oklahoma") @@ (<<"5","2","6","5">> :> "Oklahoma") @@ (<<"5","2","7","0">> :> "Oklahoma") @@
       (<<"5","2","7","5">> :> "Oklahoma") @@ (<<"5","2","8","0">> :> "Oklahoma") @@ (<<"5","3","0","0">> :> "West Texas") @@
       (<<"5","3","0","1">> :> "West Texas") @@ (<<"5","3","1","0">> :> "West Texas") @@ (<<"5","3","1","1">> :> "West Texas") @@
       (<<"5","3","1","6">> :> "West Texas") @@ (<<"5","3","2","0">> :> "West Texas") @@ (<<"5","4","1","0">> :> "West Texas") @@
       (<<"5","4","1","5">> :> "West Texas")

NoMatch == Text("No Match")

\* the classifier with the length test off by one
get_market_from_cer_LongerThanFour(cer_number) ==
    IF IsStr(cer_number) /\ Len(cer_number.v) > 4
    THEN IF SubSeq(cer_number.v, 1, 4) \in DOMAIN MARKET_KEY
         THEN Text(MARKET_KEY[SubSeq(cer_number.v, 1, 4)])
         ELSE NoMatch
    ELSE NoMatch

get_market_from_cer(cer_number) ==
    IF IsStr(cer_number) /\ Len(cer_number.v) >= 4
    THEN IF SubSeq(cer_number.v, 1, 4) \in DOMAIN MARKET_KEY
         THEN Text(MARKET_KEY[SubSeq(cer_number.v, 1, 4)])
         ELSE NoMatch
    ELSE NoMatch

-----------------------------------------------------------------------------
(* Python string primitives, on sequences of symbols (0-based results) *)

\* s.find(c): index of the first c, -1 when there is none
RECURSIVE FindFrom(_, _, _)
FindFrom(s, c, i) ==
    IF i > Len(s) THEN -1
    ELSE IF s[i] = c THEN i - 1
    ELSE FindFrom(s, c, i + 1)

PyFind(s, c) == FindFrom(s, c, 1)

\* s.rfind(c): index of the last c, -1 when there is none
RECURSIVE RFindFrom(_, _, _)
RFindFrom(s, c, i) ==
    IF i < 1 THEN -1
    ELSE IF s[i] = c THEN i - 1
    ELSE RFindFrom(s, c, i - 1)

PyRFind(s, c) == RFindFrom(s, c, Len(s))

\* a slice bound as Python normalises it: negative counts from the end
SliceBound(n, i) ==
    IF i < 0 THEN (IF n + i < 0 THEN 0 ELSE n + i)
    ELSE IF i > n THEN n ELSE i

\* s[a:b]
PySlice(s, a, b) ==
    LET start == SliceBound(Len(s), a)
        stop  == SliceBound(Len(s), b)
    IN  IF stop <= start THEN <<>>
        ELSE [i \in 1..(stop - start) |-> s[start + i]]

\* s.strip(), for the blank " "
RECURSIVE LStrip(_)
LStrip(s) ==
    IF s # <<>> /\ s[1] = " " THEN LStrip(Tail(s)) ELSE s

RECURSIVE RStrip(_)
RStrip(s) ==
    IF s # <<>> /\ s[Len(s)] = " "
    THEN RStrip([i \in 1..(Len(s) - 1) |-> s[i]])
    ELSE s

PyStrip(s) == RStrip(LStrip(s))

-----------------------------------------------------------------------------
(* Extraction client *)

EmptyObject == <<"{", "}">>

clean_json_response(text) ==
    LET match == PySlice(text, PyFind(text, "{"), PyRFind(text, "}") + 1)
    IN  IF match # <<>> THEN match ELSE EmptyObject

\* json.loads on the texts modelled here.  The symbols of a response are
\* "{", "}", "x" (a character of prose) and "m" (the member list of the
\* object, whose contents are `members`): the only documents are "{}" and
\* "{m}".
json_loads(s, members) ==
    IF s = EmptyObject THEN Return(<<>>)
    ELSE IF s = <<"{", "m", "}">> THEN Return(members)
    ELSE Raise("JSONDecodeError", "Expecting value")

ExtractFailed == "Gemini API call or JSON parsing failed"

\* llm is what generate_content does for this call: it fails, or it
\* answers with response.text = llm.text
extract_data_from_email(email_body, llm) ==
    IF llm.fails THEN Raise("ValueError", ExtractFailed)
    ELSE LET parsed == json_loads(clean_json_response(llm.text), llm.members)
         IN  IF parsed.exc # "" THEN Raise("ValueError", ExtractFailed)
             ELSE parsed

KeyMissing == "GEMINI_API_KEY not found in environment variables."

\* GeminiProcessor(): the exception is printed and re-raised
GeminiProcessor_init(environ) ==
    IF ~environ.apiKey THEN Raise("ValueError", KeyMissing)
    ELSE Return(None)

-----------------------------------------------------------------------------
(* Date normaliser *)

Digits == <<"0", "1", "2", "3", "4", "5", "6", "7", "8", "9">>

IsDigit(c) == \E i \in DOMAIN Digits : Digits[i] = c

DigitVal(c) == (CHOOSE i \in DOMAIN Digits : Digits[i] = c) - 1

\* int(s) of a run of digits
RECURSIVE atoi(_)
atoi(s) ==
    IF s = <<>> THEN 0
    ELSE 10 * atoi([i \in 1..(Len(s) - 1) |-> s[i]]) + DigitVal(s[Len(s)])

\* the decimal text of n >= 0, as an f-string renders it: no padding
RECURSIVE itoa(_)
itoa(n) ==
    IF n < 10 THEN <<Digits[n + 1]>>
    ELSE itoa(n \div 10) \o <<Digits[(n % 10) + 1]>>

RECURSIVE Split(_, _)
Split(s, sep) ==
    LET i == PyFind(s, sep)
    IN  IF i = -1 THEN <<s>>
        ELSE <<PySlice(s, 0, i)>> \o Split(PySlice(s, i + 1, Len(s)), sep)

IsNumber(f) == f # <<>> /\ \A i \in DOMAIN f : IsDigit(f[i])

HasDigit(s) == \E i \in DOMAIN s : IsDigit(s[i])

\* the numeric fields of a date written with one separator, "/" or "-"
DateFields(s) == Split(s, IF PyFind(s, "/") # -1 THEN "/" ELSE "-")

IsLeap(y) == (y % 4 = 0 /\ y % 100 # 0) \/ y % 400 = 0

DaysInMonth(y, m) ==
    IF m = 2 THEN (IF IsLeap(y) THEN 29 ELSE 28)
    ELSE IF m \in {4, 6, 9, 11} THEN 30 ELSE 31

\* datetime accepts the date
ValidDate(y, m, d) ==
    /\ y >= 1 /\ y <= 9999
    /\ m >= 1 /\ m <= 12
    /\ d >= 1 /\ d <= DaysInMonth(y, m)

ParserError == [ok |-> FALSE, year |-> 0, month |-> 0, day |-> 0]

\* which of three numbers is the year, the month and the day, by the
\* parser's defaults (month first, unless the first number cannot be one);
\* ystridx is the 0-based place of the field written with more than two
\* digits, which the parser takes as the year's
resolve_ymd(n, ystridx) ==
    IF n[1] > 31 \/ ystridx = 0
    THEN [year |-> n[1], month |-> n[2], day |-> n[3]]
    ELSE IF n[1] > 12
    THEN [year |-> n[3], month |-> n[2], day |-> n[1]]
    ELSE [year |-> n[3], month |-> n[1], day |-> n[2]]

\* three numbers joined by one separator, exactly one of them written with
\* more than two digits
IsNumericDate(s) ==
    /\ Len(DateFields(s)) = 3
    /\ \A i \in 1..3 : IsNumber(DateFields(s)[i])
    /\ Cardinality({i \in 1..3 : Len(DateFields(s)[i]) > 2}) = 1

\* dateutil.parser.parse(timestr, fuzzy=True) on the two shapes of text
\* modelled here: a text without any digit (nothing to read a date from)
\* and a numeric date.  No other text is given to it.
parse(timestr) ==
    CASE ~HasDigit(timestr) -> ParserError
      [] HasDigit(timestr) /\ IsNumericDate(timestr) ->
            LET f   == DateFields(timestr)
                yi  == CHOOSE i \in 1..3 : Len(f[i]) > 2
                ymd == resolve_ymd([i \in 1..3 |-> atoi(f[i])], yi - 1)
            IN  IF ValidDate(ymd.year, ymd.month, ymd.day)
                THEN [ok |-> TRUE, year |-> ymd.year, month |-> ymd.month,
                      day |-> ymd.day]
                ELSE ParserError

NoStrip == "object has no attribute 'strip'"

\* the normaliser handing back the stripped text when parsing fails
format_date_string_Stripped(date_str) ==
    IF ~Truthy(date_str) THEN Return(Str(<<>>))
    ELSE IF ~IsStr(date_str) THEN Raise("AttributeError", NoStrip)
    ELSE LET dt_object == parse(PyStrip(date_str.v))
         IN  IF dt_object.ok
             THEN Return(Str(itoa(dt_object.month) \o <<"/">> \o
                             itoa(dt_object.day) \o <<"/">> \o
                             itoa(dt_object.year)))
             ELSE Return(Str(PyStrip(date_str.v)))

format_date_string(date_str) ==
    IF ~Truthy(date_str) THEN Return(Str(<<>>))
    ELSE IF ~IsStr(date_str) THEN Raise("AttributeError", NoStrip)
    ELSE LET dt_object == parse(PyStrip(date_str.v))
         IN  IF dt_object.ok
             THEN Return(Str(itoa(dt_object.month) \o <<"/">> \o
                             itoa(dt_object.day) \o <<"/">> \o
                             itoa(dt_object.year)))
             ELSE Return(date_str)

-----------------------------------------------------------------------------
(* Spreadsheet writer *)

Header ==
    <<Text("Forwarded Date"), Text("Market"), Text("Ardent CER#"),
      Text("Capital $"), Text("Notes"), Text("Mfg"), Text("Model"),
      Text("ETA/Install"), Text("URL"), Text("Source Email")>>

MarketOf(d) == Get(d, "Market", Text("Unknown"))

\* the row built in the order of the data model instead of the header's
row_to_add_DataModelOrder(d) ==
    <<Get(d, "Forwarded Date", Str(<<>>)),
      Get(d, "Ardent CER#", Str(<<>>)),
      Get(d, "Notes", Str(<<>>)),
      Get(d, "Capital $", Str(<<>>)),
      Get(d, "ETA/Install", Str(<<>>)),
      Get(d, "Mfg", Str(<<>>)),
      Get(d, "Model", Str(<<>>)),
      Get(d, "URL", Str(<<>>)),
      MarketOf(d),
      Get(d, "Source Email", Str(<<>>))>>

row_to_add(d) ==
    <<Get(d, "Forwarded Date", Str(<<>>)),
      MarketOf(d),
      Get(d, "Ardent CER#", Str(<<>>)),
      Get(d, "Capital $", Str(<<>>)),
      Get(d, "Notes", Str(<<>>)),
      Get(d, "Mfg", Str(<<>>)),
      Get(d, "Model", Str(<<>>)),
      Get(d, "ETA/Install", Str(<<>>)),
      Get(d, "URL", Str(<<>>)),
      Get(d, "Source Email", Str(<<>>))>>

CredsUnset == "GOOGLE_CREDENTIALS_JSON environment variable not set."

\* get_gspread_client(): the credentials blob must be set and be JSON
get_gspread_client(environ) ==
    CASE environ.creds = "unset" -> Raise("ValueError", CredsUnset)
      [] environ.creds = "malformed" -> Raise("JSONDecodeError", "Expecting value")
      [] OTHER -> Return(None)

-----------------------------------------------------------------------------
(* Webhook endpoint *)

EmptyDict == [k \in {} |-> None]

\* d[k] = x
Put(d, k, x) == [j \in DOMAIN d \cup {k} |-> IF j = k THEN x ELSE d[j]]

Response(code, body) == [code |-> code, body |-> body]

NoResponse == Response(0, <<>>)

NoBody == Response(400, <<"Failed: No email body content.">>)

NoCer == Response(400, <<"Failed: Could not extract CER#.">>)

Success == Response(200, <<"Success: Email processed and sheet updated.">>)

\* the except clause answering 400
ServerError_As400(e) == Response(400, <<"Internal server error: ", e.msg>>)

ServerError(e) == Response(500, <<"Internal server error: ", e.msg>>)

NoException == [exc |-> "", msg |-> ""]

\* the body check testing for a missing field only
BodyMissing_OnlyNone(email_body) == email_body = None

\* "if not email_body": the field is missing or empty
BodyMissing(email_body) == ~Truthy(email_body)

\* the request-number check testing for None only
CerMissing_OnlyNone(cer_number) == cer_number = None

\* "if not cer_number", on the str() of the extracted field
CerMissing(cer_number) == ~Truthy(cer_number)

\* the try block of handle_email up to the call of update_google_sheet:
\* an exception, an early return, or the record to write
TryBlock(environ, email_body, email_from, llm) ==
    LET gemini         == GeminiProcessor_init(environ)
        result         == extract_data_from_email(email_body, llm)
        extracted_data == result.val
        cer_number     == PyStr(Get(extracted_data, "Ardent CER#", Str(<<>>)))
        date           == format_date_string(
                              Get(extracted_data, "Forwarded Date", None))
        augmented      ==
            Put(Put(Put(extracted_data,
                        "Forwarded Date", date.val),
                    "Market", get_market_from_cer(cer_number)),
                "Source Email", email_from)
    IN  IF gemini.exc # ""
        THEN [kind |-> "raise", exc |-> gemini.exc, msg |-> gemini.msg,
              llm |-> 0, extracted |-> EmptyDict, data |-> EmptyDict]
        ELSE IF result.exc # ""
        THEN [kind |-> "raise", exc |-> result.exc, msg |-> result.msg,
              llm |-> 1, extracted |-> EmptyDict, data |-> EmptyDict]
        ELSE IF CerMissing(cer_number)
        THEN [kind |-> "return", exc |-> "", msg |-> "",
              llm |-> 1, extracted |-> extracted_data, data |-> EmptyDict]
        ELSE IF date.exc # ""
        THEN [kind |-> "raise", exc |-> date.exc, msg |-> date.msg,
              llm |-> 1, extracted |-> extracted_data, data |-> EmptyDict]
        ELSE [kind |-> "write", exc |-> "", msg |-> "",
              llm |-> 1, extracted |-> extracted_data, data |-> augmented]

\* handle_email from the arrival of the request to its first spreadsheet
\* call: the body check, the try block, the except clause and the start of
\* update_google_sheet (whose own except clause swallows a failure to
\* authenticate)
handle_email(environ, email_body, email_from, llm) ==
    IF BodyMissing(email_body)
    THEN [pc |-> "done", resp |-> NoBody, raised |-> NoException, llm |-> 0,
          extracted |-> EmptyDict, data |-> EmptyDict]
    ELSE LET t == TryBlock(environ, email_body, email_from, llm)
         IN  CASE t.kind = "raise" ->
                    [pc |-> "done", resp |-> ServerError(t),
                     raised |-> [exc |-> t.exc, msg |-> t.msg],
                     llm |-> t.llm, extracted |-> t.extracted,
                     data |-> EmptyDict]
               [] t.kind = "return" ->
                    [pc |-> "done", resp |-> NoCer, raised |-> NoException,
                     llm |-> t.llm, extracted |-> t.extracted,
                     data |-> EmptyDict]
               [] OTHER ->
                    [pc |-> IF get_gspread_client(environ).exc # ""
                            THEN "done" ELSE "open",
                     resp |-> IF get_gspread_client(environ).exc # ""
                              THEN Success ELSE NoResponse,
                     raised |-> NoException,
                     llm |-> t.llm, extracted |-> t.extracted,
                     data |-> t.data]

-----------------------------------------------------------------------------
(* Bounds and inputs *)

NumProcs == 2

Procs == 1..NumProcs

Environments ==
    [apiKey : BOOLEAN, creds : {"ok", "unset", "malformed"}]

EmailBodies == {None, Str(<<>>), Text("FW: CER: 5510-001 ED Expansion")}

Senders == {Text("relay@example.com")}

Fields ==
    {"Forwarded Date", "Ardent CER#", "Notes", "Capital $", "ETA/Install",
     "Mfg", "Model", "URL"}

\* a response with all eight fields populated
Populated(cer, date) ==
    [k \in Fields |->
        CASE k = "Ardent CER#" -> cer
          [] k = "Forwarded Date" -> date
          [] k = "Notes" -> Text("ED Expansion")
          [] k = "Capital $" -> PyInt(<<"3", "1", "5", "0", "0", "0">>)
          [] k = "ETA/Install" -> Text("Q3")
          [] k = "Mfg" -> Text("Stryker")
          [] k = "Model" -> Text("1688")
          [] k = "URL" -> Text("http://erp.example/r/1")]

IsoDate == Str(<<"2", "0", "2", "4", "-", "0", "1", "-", "0", "5">>)

LLMRecords ==
    { Populated(Str(<<"5", "5", "1", "0", "-", "0", "0", "1">>), IsoDate),
      Populated(PyInt(<<"5", "5", "1", "0", "0", "0", "1">>), IsoDate),
      Populated(None, IsoDate),
      Populated(Str(<<>>), IsoDate),
      Populated(Str(<<"5", "5", "1", "0", "-", "0", "0", "1">>),
                PyInt(<<"2", "0", "2", "4">>)),
      [k \in {"Notes"} |-> Text("ED Expansion")],
      [k \in {"Ardent CER#"} |-> Str(<<"9", "9">>)] }

\* response texts that hold the object, and texts that hold none
ObjectTexts == {<<"{", "m", "}">>, <<"x", "{", "m", "}", "x">>}

ProseTexts == {<<"x">>, <<"m", "}">>, <<"{", "m">>}

LLMOutcomes ==
    {[fails |-> TRUE, text |-> <<>>, members |-> EmptyDict]} \cup
    [fails : {FALSE}, text : ProseTexts, members : {EmptyDict}] \cup
    [fails : {FALSE}, text : ObjectTexts, members : LLMRecords]

-----------------------------------------------------------------------------
(* The webhook under concurrent requests *)

NoRequest == [text |-> None, from |-> None]

Init ==
    /\ env \in Environments
    /\ tabs = [t \in {} |-> <<>>]
    /\ pc = [p \in Procs |-> "idle"]
    /\ req = [p \in Procs |-> NoRequest]
    /\ extracted = [p \in Procs |-> EmptyDict]
    /\ data = [p \in Procs |-> EmptyDict]
    /\ resp = [p \in Procs |-> NoResponse]
    /\ raised = [p \in Procs |-> NoException]
    /\ llmCalls = [p \in Procs |-> 0]
    /\ sheetOps = [p \in Procs |-> 0]
    /\ rowOf = [p \in Procs |-> <<>>]
    /\ arg = None
    /\ ret = Return(None)
    /\ calls = 0

\* every way a POST to /webhook can go up to its first spreadsheet call,
\* for each environment: the form fields, the behaviour of the LLM service
\* and what handle_email makes of them
Arrivals ==
    [e \in Environments |->
        {[form |-> [text |-> email_body, from |-> email_from],
          h |-> handle_email(e, email_body, email_from, llm)] :
            email_body \in EmailBodies, email_from \in Senders,
            llm \in LLMOutcomes}]

\* a POST to /webhook arrives and is processed up to its first
\* spreadsheet call
Receive(p) ==
    /\ pc[p] = "idle"
    /\ \E a \in Arrivals[env] :
          /\ req' = [req EXCEPT ![p] = a.form]
          /\ pc' = [pc EXCEPT ![p] = a.h.pc]
          /\ resp' = [resp EXCEPT ![p] = a.h.resp]
          /\ raised' = [raised EXCEPT ![p] = a.h.raised]
          /\ llmCalls' = [llmCalls EXCEPT ![p] = a.h.llm]
          /\ extracted' = [extracted EXCEPT ![p] = a.h.extracted]
          /\ data' = [data EXCEPT ![p] = a.h.data]
    /\ UNCHANGED <<env, tabs, sheetOps, rowOf, funVars>>

\* client.open(sheet_name) succeeds
Open(p) ==
    /\ pc[p] = "open"
    /\ pc' = [pc EXCEPT ![p] = "lookup"]
    /\ sheetOps' = [sheetOps EXCEPT ![p] = @ + 1]
    /\ UNCHANGED <<env, tabs, req, extracted, data, resp, raised, llmCalls,
                   rowOf, funVars>>

\* spreadsheet.worksheet(market): the tab is found, or WorksheetNotFound
Lookup(p) ==
    /\ pc[p] = "lookup"
    /\ pc' = [pc EXCEPT ![p] = IF MarketOf(data[p]) \in DOMAIN tabs
                               THEN "append" ELSE "create"]
    /\ sheetOps' = [sheetOps EXCEPT ![p] = @ + 1]
    /\ UNCHANGED <<env, tabs, req, extracted, data, resp, raised, llmCalls,
                   rowOf, funVars>>

\* spreadsheet.add_worksheet(title=market): the service refuses a title
\* that exists by now, and update_google_sheet swallows the error
Create(p) ==
    /\ pc[p] = "create"
    /\ sheetOps' = [sheetOps EXCEPT ![p] = @ + 1]
    /\ IF MarketOf(data[p]) \in DOMAIN tabs
       THEN /\ pc' = [pc EXCEPT ![p] = "done"]
            /\ resp' = [resp EXCEPT ![p] = Success]
            /\ tabs' = tabs
       ELSE /\ pc' = [pc EXCEPT ![p] = "header"]
            /\ resp' = resp
            /\ tabs' = [t \in DOMAIN tabs \cup {MarketOf(data[p])} |->
                          IF t \in DOMAIN tabs THEN tabs[t] ELSE <<>>]
    /\ UNCHANGED <<env, req, extracted, data, raised, llmCalls, rowOf,
                   funVars>>

\* worksheet.append_row(header) on the tab just created
AppendHeader(p) ==
    /\ pc[p] = "header"
    /\ pc' = [pc EXCEPT ![p] = "append"]
    /\ sheetOps' = [sheetOps EXCEPT ![p] = @ + 1]
    /\ tabs' = [tabs EXCEPT ![MarketOf(data[p])] = Append(@, Header)]
    /\ UNCHANGED <<env, req, extracted, data, resp, raised, llmCalls, rowOf,
                   funVars>>

\* worksheet.append_row(row_to_add), then handle_email answers
AppendRow(p) ==
    /\ pc[p] = "append"
    /\ pc' = [pc EXCEPT ![p] = "done"]
    /\ sheetOps' = [sheetOps EXCEPT ![p] = @ + 1]
    /\ tabs' = [tabs EXCEPT ![MarketOf(data[p])] =
                    Append(@, row_to_add(data[p]))]
    /\ rowOf' = [rowOf EXCEPT ![p] = row_to_add(data[p])]
    /\ resp' = [resp EXCEPT ![p] = Success]
    /\ UNCHANGED <<env, req, extracted, data, raised, llmCalls, funVars>>

\* a spreadsheet call fails and the failure reaches handle_email
ApiFailure_Propagates(p) ==
    /\ pc[p] \in {"open", "lookup", "create", "header", "append"}
    /\ pc' = [pc EXCEPT ![p] = "done"]
    /\ sheetOps' = [sheetOps EXCEPT ![p] = @ + 1]
    /\ resp' = [resp EXCEPT ![p] = ServerError([msg |-> "APIError"])]
    /\ UNCHANGED <<env, tabs, req, extracted, data, raised, llmCalls, rowOf,
                   funVars>>

\* a spreadsheet call fails (spreadsheet not found, API error): the except
\* clause of update_google_sheet logs it and handle_email answers
ApiFailure(p) ==
    /\ pc[p] \in {"open", "lookup", "create", "header", "append"}
    /\ pc' = [pc EXCEPT ![p] = "done"]
    /\ sheetOps' = [sheetOps EXCEPT ![p] = @ + 1]
    /\ resp' = [resp EXCEPT ![p] = Success]
    /\ UNCHANGED <<env, tabs, req, extracted, data, raised, llmCalls, rowOf,
                   funVars>>

Next ==
    \E p \in Procs :
        \/ Receive(p)
        \/ Open(p)
        \/ Lookup(p)
        \/ Create(p)
        \/ AppendHeader(p)
        \/ AppendRow(p)
        \/ ApiFailure(p)

Spec == Init /\ [][Next]_vars

-----------------------------------------------------------------------------
(* The pure functions, applied to inputs drawn from bounded sets *)

\* no request is in flight while a function is exercised
WebIdle ==
    /\ env = [apiKey |-> TRUE, creds |-> "ok"]
    /\ tabs = [t \in {} |-> <<>>]
    /\ pc = [p \in Procs |-> "idle"]
    /\ req = [p \in Procs |-> NoRequest]
    /\ extracted = [p \in Procs |-> EmptyDict]
    /\ data = [p \in Procs |-> EmptyDict]
    /\ resp = [p \in Procs |-> NoResponse]
    /\ raised = [p \in Procs |-> NoException]
    /\ llmCalls = [p \in Procs |-> 0]
    /\ sheetOps = [p \in Procs |-> 0]
    /\ rowOf = [p \in Procs |-> <<>>]

(* get_market_from_cer *)

Cer5510 == Str(<<"5", "5", "1", "0", "-", "0", "0", "1">>)

OtherPrefixes ==
    {<<"9", "9", "9", "9">>, <<"5", "5", "1", "1">>, <<"0", "0", "0", "0">>,
     <<"5", "5", "1", "-">>, <<" ", "5", "5", "1">>}

Suffixes == {<<>>, <<"0">>, <<"-", "0", "0", "1">>}

CerInputs ==
    {Str(k \o s) : k \in DOMAIN MARKET_KEY \cup OtherPrefixes, s \in Suffixes}
    \cup {Str(SubSeq(k, 1, n)) : k \in DOMAIN MARKET_KEY, n \in 0..3}
    \cup {None, PyInt(<<"5", "5", "1", "0">>),
          PyInt(<<"5", "5", "1", "0", "0", "0", "1">>)}

InitMarket ==
    /\ WebIdle
    /\ arg \in CerInputs
    /\ ret = Return(None)
    /\ calls = 0

CallMarket ==
    /\ calls = 0
    /\ ret' = Return(get_market_from_cer(arg))
    /\ calls' = 1
    /\ UNCHANGED <<arg, webVars>>

SpecMarket == InitMarket /\ [][CallMarket]_vars

(* clean_json_response *)

MaxLen == 4

Symbols == {"{", "}", "x"}

ResponseTexts == UNION {[1..n -> Symbols] : n \in 0..MaxLen}

InitClean ==
    /\ WebIdle
    /\ arg \in {Str(t) : t \in ResponseTexts}
    /\ ret = Return(None)
    /\ calls = 0

CallClean ==
    /\ calls = 0
    /\ ret' = Return(Str(clean_json_response(arg.v)))
    /\ calls' = 1
    /\ UNCHANGED <<arg, webVars>>

SpecClean == InitClean /\ [][CallClean]_vars

(* format_date_string *)

DayMonthTokens ==
    {<<"1">>, <<"0", "1">>, <<"2">>, <<"5">>, <<"1", "2">>, <<"1", "3">>,
     <<"2", "9">>, <<"3", "0">>, <<"3", "1">>, <<"3", "2">>, <<"0">>}

YearTokens ==
    {<<"2", "0", "2", "4">>, <<"2", "0", "2", "3">>, <<"1", "9", "0", "0">>,
     <<"0", "0", "2", "4">>, <<"0", "0", "0", "0">>}

Separators == {<<"/">>, <<"-">>}

Pads == {<<>>, <<" ">>}

DateTexts ==
    {l \o a \o s \o b \o s \o y \o r :
        a \in DayMonthTokens, b \in DayMonthTokens, y \in YearTokens,
        s \in Separators, l \in Pads, r \in Pads}
    \cup
    {l \o y \o s \o a \o s \o b \o r :
        a \in DayMonthTokens, b \in DayMonthTokens, y \in YearTokens,
        s \in Separators, l \in Pads, r \in Pads}
    \cup
    {<<>>, <<" ">>, <<"x">>, <<"x", "x">>, <<" ", "x", "x", " ">>,
     <<"x", "/", "x">>, <<"x", " ">>, <<"-">>}

InitDate ==
    /\ WebIdle
    /\ arg \in {Str(t) : t \in DateTexts}
    /\ ret = Return(None)
    /\ calls = 0

\* the function applied to the input, then to its own result when that is
\* again a text of the modelled shapes
CallDate ==
    /\ calls < 2
    /\ ret.exc = ""
    /\ calls = 1 => ~HasDigit(ret.val.v) \/ IsNumericDate(PyStrip(ret.val.v))
    /\ ret' = format_date_string(IF calls = 0 THEN arg ELSE ret.val)
    /\ calls' = calls + 1
    /\ UNCHANGED <<arg, webVars>>

SpecDate == InitDate /\ [][CallDate]_vars

-----------------------------------------------------------------------------
(* Properties *)

Done(p) == pc[p] = "done"

\* C1: get_market_from_cer is total: a string whose first four characters
\* are a key of MARKET_KEY yields the mapped market name ('5510-001' yields
\* 'East Texas'); any other string, a string shorter than four characters
\* and a value that is not a string yield 'No Match'; it never raises.
C1_MarketTotal ==
    calls = 1 =>
        LET keys == {k \in DOMAIN MARKET_KEY :
                        /\ IsStr(arg)
                        /\ Len(arg.v) >= 4
                        /\ \A i \in 1..4 : arg.v[i] = k[i]}
        IN  /\ ret.exc = ""
            /\ \A k \in keys : ret.val = Text(MARKET_KEY[k])
            /\ keys = {} => ret.val = Text("No Match")
            /\ arg = Cer5510 => ret.val = Text("East Texas")

C1_Witness ==
    calls = 1 /\ arg = Cer5510 /\ ret.val = Text("East Texas")

\* C2: a request whose 'text' field is missing or empty is answered with
\* 400 and causes no LLM call and no spreadsheet operation, whatever the
\* other fields and the environment are.
C2_NoBodyRejected ==
    \A p \in Procs :
        (pc[p] # "idle" /\ req[p].text \in {None, Str(<<>>)}) =>
            /\ Done(p)
            /\ resp[p].code = 400
            /\ llmCalls[p] = 0
            /\ sheetOps[p] = 0
            /\ rowOf[p] = <<>>

C2_Witness ==
    \E p \in Procs :
        /\ Done(p) /\ req[p].text = Str(<<>>) /\ resp[p].code = 400
        /\ env.apiKey /\ env.creds = "ok"

\* the extraction step of request p did not yield a usable request number:
\* the LLM call failed or its response did not parse
ExtractionRaised(p) ==
    llmCalls[p] = 1 /\ raised[p].msg = ExtractFailed

\* ... or the record it returned has no request number, or an empty one
CerAbsentOrEmpty(p) ==
    /\ llmCalls[p] = 1
    /\ raised[p].exc = ""
    /\ Get(extracted[p], "Ardent CER#", Str(<<>>)) = Str(<<>>)

WriteStage(p) == DOMAIN data[p] # {}

\* C4: once update_google_sheet is called the response is 200: no failure
\* inside it reaches handle_email, and the response does not depend on
\* whether the row was written.
C4_WriteStageAlways200 ==
    \A p \in Procs :
        WriteStage(p) =>
            /\ raised[p] = NoException
            /\ resp[p] \in {NoResponse, Success}
            /\ Done(p) => resp[p] = Success

C4_Witness ==
    \E p \in Procs :
        /\ Done(p) /\ WriteStage(p) /\ sheetOps[p] > 0
        /\ rowOf[p] = <<>> /\ resp[p].code = 200

\* C5: for a request with a non-empty body, an exception raised during
\* processing (a missing API key, the date normaliser raising on a date
\* that is not a string) results in 500 with the exception's message in
\* the body and no spreadsheet operation; every finished request has an
\* HTTP response.
C5_ExceptionIs500 ==
    \A p \in Procs :
        Done(p) =>
            /\ resp[p].code \in {200, 400, 500}
            /\ raised[p].exc # "" =>
                  /\ resp[p] = Response(500, <<"Internal server error: ",
                                               raised[p].msg>>)
                  /\ sheetOps[p] = 0
                  /\ rowOf[p] = <<>>
            /\ (Truthy(req[p].text) /\ ~env.apiKey) =>
                  /\ raised[p].msg = KeyMissing
                  /\ resp[p].code = 500
            /\ ("Forwarded Date" \in DOMAIN extracted[p]
                    /\ extracted[p]["Forwarded Date"].t = "int"
                    /\ Truthy(PyStr(Get(extracted[p], "Ardent CER#", Str(<<>>))))) =>
                  /\ raised[p].exc = "AttributeError"
                  /\ resp[p].code = 500

C5_Witness ==
    \E p \in Procs :
        /\ Done(p) /\ raised[p].exc = "AttributeError"
        /\ resp[p].code = 500 /\ sheetOps[p] = 0

\* the LLM returned all eight fields, none of them empty
AllPopulated(e) == DOMAIN e = Fields /\ \A k \in Fields : Truthy(e[k])

\* C6 as stated: the row has ten cells in the order forwarded date, request
\* number, notes, dollar amount, ETA, manufacturer, model, URL, market,
\* source email; the eight LLM cells hold what the LLM returned.
C6_RowInDataModelOrder ==
    \A p \in Procs :
        (rowOf[p] # <<>> /\ AllPopulated(extracted[p])) =>
            rowOf[p] = <<extracted[p]["Forwarded Date"],
                         extracted[p]["Ardent CER#"],
                         extracted[p]["Notes"],
                         extracted[p]["Capital $"],
                         extracted[p]["ETA/Install"],
                         extracted[p]["Mfg"],
                         extracted[p]["Model"],
                         extracted[p]["URL"],
                         get_market_from_cer(PyStr(extracted[p]["Ardent CER#"])),
                         req[p].from>>

\* the cell of request p that belongs under a header cell
CellUnder(p, name) ==
    CASE name = "Forwarded Date" ->
            format_date_string(extracted[p]["Forwarded Date"]).val
      [] name = "Market" ->
            get_market_from_cer(PyStr(extracted[p]["Ardent CER#"]))
      [] name = "Source Email" -> req[p].from
      [] OTHER -> extracted[p][name]

\* C6 amended: the row has ten cells in the order of the tab's header
\* (Forwarded Date, Market, Ardent CER#, Capital $, Notes, Mfg, Model,
\* ETA/Install, URL, Source Email); the forwarded-date cell holds the
\* normalised date, the other seven LLM cells what the LLM returned, and
\* the remaining two the market name and the 'from' address.
C6_RowInHeaderOrder ==
    \A p \in Procs :
        (rowOf[p] # <<>> /\ AllPopulated(extracted[p])) =>
            /\ Len(rowOf[p]) = 10
            /\ Header[1] = Text("Forwarded Date")
            /\ Header[2] = Text("Market")
            /\ \A i \in 1..10 : rowOf[p][i] = CellUnder(p, Header[i].v[1])

C6_Witness ==
    \E p \in Procs :
        /\ rowOf[p] # <<>> /\ AllPopulated(extracted[p])
        /\ extracted[p]["Forwarded Date"] = IsoDate
        /\ rowOf[p][1] = Str(<<"1", "/", "5", "/", "2", "0", "2", "4">>)
        /\ rowOf[p][2] = Text("East Texas")

\* a text M/D/YYYY as the normaliser writes it: no padding, a month 1..12,
\* a day 1..31 and a year of four digits
Normalized(s) ==
    LET f == Split(s, "/")
    IN  /\ Len(f) = 3
        /\ \A i \in 1..3 : IsNumber(f[i]) /\ f[i][1] # "0"
        /\ Len(f[1]) <= 2 /\ Len(f[2]) <= 2 /\ Len(f[3]) = 4
        /\ atoi(f[1]) \in 1..12
        /\ atoi(f[2]) \in 1..31

\* C7: format_date_string returns its input unchanged (i) when it is a
\* normalised M/D/YYYY date with a valid month and day, so that applying it
\* twice equals applying it once, and (ii) when it is a non-empty string
\* the parser rejects, blanks included, without raising.
C7_DateUnchanged ==
    /\ (calls >= 1 /\ Normalized(arg.v)) => ret = Return(arg)
    /\ (calls = 1 /\ arg.v # <<>> /\ ~parse(PyStrip(arg.v)).ok) =>
            ret = Return(arg)

C7_Witness ==
    /\ calls = 2
    /\ arg = Str(<<"2", "/", "2", "9", "/", "2", "0", "2", "4">>)
    /\ ret.val = arg

\* C8: every tab that contains a row has the header as its first row and
\* contains it exactly once, in every interleaving of requests.
C8_HeaderFirstAndOnce ==
    \A t \in DOMAIN tabs :
        tabs[t] # <<>> =>
            /\ tabs[t][1] = Header
            /\ Cardinality({i \in DOMAIN tabs[t] : tabs[t][i] = Header}) = 1

\* C9: clean_json_response returns the text from the first "{" to the last
\* "}" inclusive, and "{}" when there is no such span; the result always
\* starts with "{" and ends with "}".
C9_CleanIsBraceSpan ==
    calls = 1 =>
        LET text  == arg.v
            out   == ret.val.v
            opens == {i \in DOMAIN text : text[i] = "{"}
            closes == {i \in DOMAIN text : text[i] = "}"}
            first == CHOOSE i \in opens : \A j \in opens : i <= j
            last  == CHOOSE i \in closes : \A j \in closes : j <= i
        IN  /\ out # <<>> /\ out[1] = "{" /\ out[Len(out)] = "}"
            /\ IF opens # {} /\ closes # {} /\ first < last
               THEN out = SubSeq(text, first, last)
               ELSE out = <<"{", "}">>

\* C10: every data row appended has a non-empty request-number cell, and
\* its market cell is get_market_from_cer of that request number.
C10_RowsHaveRequestNumber ==
    \A t \in DOMAIN tabs :
        \A i \in DOMAIN tabs[t] :
            tabs[t][i] # Header =>
                /\ tabs[t][i][3] \notin {None, Str(<<>>)}
                /\ tabs[t][i][2] = get_market_from_cer(PyStr(tabs[t][i][3]))

====
